---- MODULE Spec2Model ----
(***************************************************************************)
(* Library panels: the persistence layer of                                *)
(* pkg/services/librarypanels/database.go.                                 *)
(*                                                                         *)
(* Two tables, library_panel and library_panel_dashboard, and the eight    *)
(* operations of LibraryPanelService that read and write them.  Each       *)
(* operation runs in one database session; the ones that write run in one  *)
(* transaction, rolled back when the callback returns an error.            *)
(***************************************************************************)
EXTENDS Integers, Sequences, FiniteSets, Bags, TLC

VARIABLES
    panels,     \* table library_panel: a set of LibraryPanel rows (ID is the primary key)
    conns,      \* table library_panel_dashboard: a bag of libraryPanelDashboard rows
    nextID,     \* one more than the number of keys assigned to rows of library_panel
    last,       \* the call that has just run, with its arguments and what it returns;
                \* Ready between two calls
    deleted,    \* history: the UIDs on which deleteLibraryPanel has succeeded
    sessions    \* the calls that run concurrently, each at one of its statements

vars == <<panels, conns, nextID, last, deleted, sessions>>

----------------------------------------------------------------------------
(* Bounds and input domains *)

\* the number of keys the storage assigns to rows of library_panel: they are in 1..MaxID
MaxID == 2

\* c.SignedInUser of the request: users 1 and 2 belong to organization 1, user 3 to 2
SignedInUsers ==
    { [UserId |-> 1, OrgId |-> 1],
      [UserId |-> 2, OrgId |-> 1],
      [UserId |-> 3, OrgId |-> 2] }

\* what util.GenerateShortUID() may yield, and the uids callers pass
UIDs == {"a", "b"}

\* cmd.FolderID: 0 is the Go zero value
FolderIDs == {0, 1}

\* cmd.Name: "" is the Go zero value
Names == {"", "CPU"}

\* cmd.Model (json.RawMessage): NilModel is Go's nil
NilModel == "nil"
Models == {NilModel, "graph"}

\* createLibraryPanelCommand, patchLibraryPanelCommand
Cmds == [FolderID : FolderIDs, Name : Names, Model : Models]
NoCmd == [FolderID |-> 0, Name |-> "", Model |-> NilModel]
FullCmd == [FolderID |-> 1, Name |-> "CPU", Model |-> "graph"]

\* dashboardID arguments
DashboardIDs == {7, 9}

\* what time.Now() may return
Times == {1, 2}

\* faults of the storage layer other than a constraint violation
StorageFaults == {"ErrBadConn", "ErrTxDone"}

(* The inputs a specification draws from.  Spec draws every panel field and       *)
(* timestamp for one uid; SpecConnections draws two uids in two organizations,     *)
(* every dashboard and two shapes of command; SpecFaults adds the storage faults.   *)
PanelInputs ==
    [users |-> SignedInUsers, uids |-> {"a"}, cmds |-> Cmds, dashboards |-> {7},
     times |-> Times, faults |-> {}]

ConnectionInputs ==
    [users |-> {u \in SignedInUsers : u.UserId # 2}, uids |-> UIDs,
     cmds |-> {NoCmd, FullCmd}, dashboards |-> DashboardIDs, times |-> {1}, faults |-> {}]

FaultInputs ==
    [users |-> {u \in SignedInUsers : u.UserId # 2}, uids |-> UIDs,
     cmds |-> {NoCmd, FullCmd}, dashboards |-> {7}, times |-> {1},
     faults |-> StorageFaults]

----------------------------------------------------------------------------
(* Errors *)

Nil == "nil"
errLibraryPanelAlreadyExists == "errLibraryPanelAlreadyExists"
errLibraryPanelNotFound == "errLibraryPanelNotFound"
errLibraryPanelDashboardNotFound == "errLibraryPanelDashboardNotFound"
\* fmt.Errorf("found %d panels, while expecting at most one", n)
errFoundPanels == "found panels, while expecting at most one"
\* the driver's error for a violated unique index
errUniqueConstraint == "unique constraint violation"

\* lps.SQLStore.Dialect.IsUniqueConstraintViolation(err)
IsUniqueConstraintViolation(err) == err = errUniqueConstraint

\* The fault input of a call: statement number `at` of the session fails with `err`;
\* at = 0 is a call during which the storage does not fail.
NoFault == [at |-> 0, err |-> Nil]
Faults(n, in) == {NoFault} \cup [at : 1..n, err : in.faults]

----------------------------------------------------------------------------
(* Rows *)

\* LibraryPanel{}
ZeroPanel ==
    [ID |-> 0, OrgID |-> 0, FolderID |-> 0, UID |-> "", Name |-> "", Model |-> NilModel,
     Created |-> 0, Updated |-> 0, CreatedBy |-> 0, UpdatedBy |-> 0]

\* the database as one value
DB(p, c, n) == [panels |-> p, conns |-> c, nextID |-> n]

----------------------------------------------------------------------------
(* The storage layer: the statements the session executes *)

\* the keys the storage may assign to a new row of library_panel: one more than the
\* number of keys it has assigned, which is a key that no row ever had, or, in a
\* storage that hands the keys of deleted rows out again, a smaller key that no
\* stored row has
AssignableIDs(db) ==
    {db.nextID} \cup {i \in 1..(db.nextID - 1) : \A p \in db.panels : p.ID # i}

\* session.Insert(&libraryPanel): library_panel.uid is unique; the row gets id, the
\* key that the storage assigns to it
InsertLibraryPanel(db, bean, id) ==
    IF \E p \in db.panels : p.UID = bean.UID
    THEN [db |-> db, bean |-> bean, err |-> errUniqueConstraint]
    ELSE LET row == [bean EXCEPT !.ID = id]
         IN  [db |-> [db EXCEPT !.panels = @ \cup {row}, !.nextID = @ + 1],
              bean |-> row, err |-> Nil]

\* session.Insert(&libraryPanelDashboard): (librarypanel_id, dashboard_id) is unique
InsertLibraryPanelDashboard(db, bean) ==
    IF \E r \in BagToSet(db.conns) :
           r.LibraryPanelID = bean.LibraryPanelID /\ r.DashboardID = bean.DashboardID
    THEN [db |-> db, err |-> errUniqueConstraint]
    ELSE [db |-> [db EXCEPT !.conns = @ (+) SetToBag({bean})], err |-> Nil]

\* DELETE FROM library_panel WHERE uid=? and org_id=?
ExecDeleteLibraryPanel(db, uid, orgID) ==
    LET matched == {p \in db.panels : p.UID = uid /\ p.OrgID = orgID}
    IN  [db |-> [db EXCEPT !.panels = @ \ matched], rowsAffected |-> Cardinality(matched)]

\* the rows of library_panel_dashboard of one (librarypanel_id, dashboard_id), as a bag
ConnRows(cs, panelID, dashboardID) ==
    LET S == {r \in BagToSet(cs) :
                  r.LibraryPanelID = panelID /\ r.DashboardID = dashboardID}
    IN  [r \in S |-> cs[r]]

\* DELETE FROM library_panel_dashboard WHERE librarypanel_id=? and dashboard_id=?
ExecDeleteLibraryPanelDashboard(db, panelID, dashboardID) ==
    LET matched == ConnRows(db.conns, panelID, dashboardID)
    IN  [db |-> [db EXCEPT !.conns = @ (-) matched], rowsAffected |-> BagCardinality(matched)]

\* the row p after an UPDATE from bean: Update(&bean) puts in its SET clause the
\* fields of bean that are not the zero value of their type, and never the id; the
\* other columns keep what is stored
UpdatedRow(p, bean) ==
    [f \in DOMAIN p |-> IF f = "ID" \/ bean[f] = ZeroPanel[f] THEN p[f] ELSE bean[f]]

\* session.ID(id).Update(&libraryPanel): UPDATE library_panel SET ... WHERE id=?
UpdateLibraryPanel(db, id, bean) ==
    LET matched == {p \in db.panels : p.ID = id}
    IN  IF /\ matched # {}
           /\ bean.UID # ZeroPanel.UID
           /\ \E p \in db.panels : p.ID # id /\ p.UID = bean.UID
        THEN [db |-> db, rowsAffected |-> 0, err |-> errUniqueConstraint]
        ELSE [db |-> [db EXCEPT !.panels = (@ \ matched) \cup {UpdatedRow(p, bean) : p \in matched}],
              rowsAffected |-> Cardinality(matched), err |-> Nil]

\* WithTransactionalDbSession: commit when the callback returns nil, roll back otherwise
WithTransactionalDbSession(db, after, err) == IF err = Nil THEN after ELSE db

----------------------------------------------------------------------------
(* database.go *)

\* getLibraryPanel that reports more than one matching row as not found
getLibraryPanelManyIsNotFound(db, uid, orgID, flt, n) ==
    LET libraryPanels == {p \in db.panels : p.UID = uid /\ p.OrgID = orgID}
    IN  IF flt.at = n THEN [panel |-> ZeroPanel, err |-> flt.err]
        ELSE IF Cardinality(libraryPanels) # 1
        THEN [panel |-> ZeroPanel, err |-> errLibraryPanelNotFound]
        ELSE [panel |-> CHOOSE p \in libraryPanels : TRUE, err |-> Nil]

\* getLibraryPanel that selects by uid alone
getLibraryPanelByUID(db, uid, orgID, flt, n) ==
    LET libraryPanels == {p \in db.panels : p.UID = uid}
    IN  IF flt.at = n THEN [panel |-> ZeroPanel, err |-> flt.err]
        ELSE IF Cardinality(libraryPanels) = 0
        THEN [panel |-> ZeroPanel, err |-> errLibraryPanelNotFound]
        ELSE IF Cardinality(libraryPanels) > 1
        THEN [panel |-> ZeroPanel, err |-> errFoundPanels]
        ELSE [panel |-> CHOOSE p \in libraryPanels : TRUE, err |-> Nil]

\* getLibraryPanel(session, uid, orgID); it is statement n of the calling session
getLibraryPanel(db, uid, orgID, flt, n) ==
    LET libraryPanels == {p \in db.panels : p.UID = uid /\ p.OrgID = orgID}
    IN  IF flt.at = n THEN [panel |-> ZeroPanel, err |-> flt.err]
        ELSE IF Cardinality(libraryPanels) = 0
        THEN [panel |-> ZeroPanel, err |-> errLibraryPanelNotFound]
        ELSE IF Cardinality(libraryPanels) > 1
        THEN [panel |-> ZeroPanel, err |-> errFoundPanels]
        ELSE [panel |-> CHOOSE p \in libraryPanels : TRUE, err |-> Nil]

\* createLibraryPanel that leaves the folder id out of the row
createLibraryPanelWithoutFolder(db, user, cmd, uid, id, created, updated, flt) ==
    LET libraryPanel ==
            [ID |-> 0, OrgID |-> user.OrgId, FolderID |-> 0, UID |-> uid,
             Name |-> cmd.Name, Model |-> cmd.Model, Created |-> created,
             Updated |-> updated, CreatedBy |-> user.UserId, UpdatedBy |-> user.UserId]
        ins == IF flt.at = 1 THEN [db |-> db, bean |-> libraryPanel, err |-> flt.err]
               ELSE InsertLibraryPanel(db, libraryPanel, id)
        err == IF ins.err # Nil
               THEN IF IsUniqueConstraintViolation(ins.err)
                    THEN errLibraryPanelAlreadyExists ELSE ins.err
               ELSE Nil
    IN  [db |-> WithTransactionalDbSession(db, ins.db, err), panel |-> ins.bean, err |-> err]

\* createLibraryPanel that reports every failed insert as errLibraryPanelAlreadyExists
createLibraryPanelAlwaysExists(db, user, cmd, uid, id, created, updated, flt) ==
    LET libraryPanel ==
            [ID |-> 0, OrgID |-> user.OrgId, FolderID |-> cmd.FolderID, UID |-> uid,
             Name |-> cmd.Name, Model |-> cmd.Model, Created |-> created,
             Updated |-> updated, CreatedBy |-> user.UserId, UpdatedBy |-> user.UserId]
        ins == IF flt.at = 1 THEN [db |-> db, bean |-> libraryPanel, err |-> flt.err]
               ELSE InsertLibraryPanel(db, libraryPanel, id)
        err == IF ins.err # Nil THEN errLibraryPanelAlreadyExists ELSE Nil
    IN  [db |-> WithTransactionalDbSession(db, ins.db, err), panel |-> ins.bean, err |-> err]

\* (lps *LibraryPanelService) createLibraryPanel; uid is what GenerateShortUID returned,
\* created and updated what the two time.Now() calls returned, id the key that the
\* storage assigns to the row
createLibraryPanel(db, user, cmd, uid, id, created, updated, flt) ==
    LET libraryPanel ==
            [ID |-> 0, OrgID |-> user.OrgId, FolderID |-> cmd.FolderID, UID |-> uid,
             Name |-> cmd.Name, Model |-> cmd.Model, Created |-> created,
             Updated |-> updated, CreatedBy |-> user.UserId, UpdatedBy |-> user.UserId]
        ins == IF flt.at = 1 THEN [db |-> db, bean |-> libraryPanel, err |-> flt.err]
               ELSE InsertLibraryPanel(db, libraryPanel, id)
        err == IF ins.err # Nil
               THEN IF IsUniqueConstraintViolation(ins.err)
                    THEN errLibraryPanelAlreadyExists ELSE ins.err
               ELSE Nil
    IN  [db |-> WithTransactionalDbSession(db, ins.db, err), panel |-> ins.bean, err |-> err]

\* connectDashboard that returns the unique-constraint violation to its caller
connectDashboardReportsConflict(db, user, uid, dashboardID, now, flt) ==
    LET got == getLibraryPanel(db, uid, user.OrgId, flt, 1)
        libraryPanelDashboard ==
            [DashboardID |-> dashboardID, LibraryPanelID |-> got.panel.ID,
             Created |-> now, CreatedBy |-> user.UserId]
        ins == IF flt.at = 2 THEN [db |-> db, err |-> flt.err]
               ELSE InsertLibraryPanelDashboard(db, libraryPanelDashboard)
        err == IF got.err # Nil THEN got.err ELSE ins.err
    IN  [db |-> IF got.err # Nil THEN db ELSE WithTransactionalDbSession(db, ins.db, err),
         err |-> err]

\* (lps *LibraryPanelService) connectDashboard
connectDashboard(db, user, uid, dashboardID, now, flt) ==
    LET got == getLibraryPanel(db, uid, user.OrgId, flt, 1)
        libraryPanelDashboard ==
            [DashboardID |-> dashboardID, LibraryPanelID |-> got.panel.ID,
             Created |-> now, CreatedBy |-> user.UserId]
        ins == IF flt.at = 2 THEN [db |-> db, err |-> flt.err]
               ELSE InsertLibraryPanelDashboard(db, libraryPanelDashboard)
        err == IF got.err # Nil THEN got.err
               ELSE IF ins.err # Nil
               THEN IF IsUniqueConstraintViolation(ins.err) THEN Nil ELSE ins.err
               ELSE Nil
    IN  [db |-> IF got.err # Nil THEN db ELSE WithTransactionalDbSession(db, ins.db, err),
         err |-> err]

\* deleteLibraryPanel in a session that is not transactional: what the DELETE removed
\* stays removed when the callback returns an error
deleteLibraryPanelWithoutRollback(db, user, uid, flt) ==
    LET orgID == user.OrgId
        result == ExecDeleteLibraryPanel(db, uid, orgID)
        err == IF flt.at \in {1, 2} THEN flt.err
               ELSE IF result.rowsAffected # 1 THEN errLibraryPanelNotFound
               ELSE Nil
    IN  [db |-> IF flt.at = 1 THEN db ELSE result.db, err |-> err]

\* deleteLibraryPanel that also deletes the connections of the rows it deletes
deleteLibraryPanelCascades(db, user, uid, flt) ==
    LET orgID == user.OrgId
        gone == {p.ID : p \in {q \in db.panels : q.UID = uid /\ q.OrgID = orgID}}
        result == ExecDeleteLibraryPanel(db, uid, orgID)
        kept == {r \in BagToSet(db.conns) : r.LibraryPanelID \notin gone}
        after == [result.db EXCEPT !.conns = [r \in kept |-> db.conns[r]]]
        err == IF flt.at \in {1, 2} THEN flt.err
               ELSE IF result.rowsAffected # 1 THEN errLibraryPanelNotFound
               ELSE Nil
    IN  [db |-> WithTransactionalDbSession(db, after, err), err |-> err]

\* (lps *LibraryPanelService) deleteLibraryPanel
deleteLibraryPanel(db, user, uid, flt) ==
    LET orgID == user.OrgId
        result == ExecDeleteLibraryPanel(db, uid, orgID)
        err == IF flt.at \in {1, 2} THEN flt.err
               ELSE IF result.rowsAffected # 1 THEN errLibraryPanelNotFound
               ELSE Nil
    IN  [db |-> WithTransactionalDbSession(db, result.db, err), err |-> err]

\* disconnectDashboard that goes on after a failed lookup, with the zero panel
disconnectDashboardIgnoresLookup(db, user, uid, dashboardID, flt) ==
    LET got == getLibraryPanel(db, uid, user.OrgId, flt, 1)
        result == ExecDeleteLibraryPanelDashboard(db, got.panel.ID, dashboardID)
        err == IF flt.at \in {2, 3} THEN flt.err
               ELSE IF result.rowsAffected # 1 THEN errLibraryPanelDashboardNotFound
               ELSE Nil
    IN  [db |-> WithTransactionalDbSession(db, result.db, err), err |-> err]

\* disconnectDashboard without the check of the affected rows
disconnectDashboardUnchecked(db, user, uid, dashboardID, flt) ==
    LET got == getLibraryPanel(db, uid, user.OrgId, flt, 1)
        result == ExecDeleteLibraryPanelDashboard(db, got.panel.ID, dashboardID)
        err == IF got.err # Nil THEN got.err
               ELSE IF flt.at \in {2, 3} THEN flt.err
               ELSE Nil
    IN  [db |-> IF got.err # Nil THEN db ELSE WithTransactionalDbSession(db, result.db, err),
         err |-> err]

\* (lps *LibraryPanelService) disconnectDashboard
disconnectDashboard(db, user, uid, dashboardID, flt) ==
    LET got == getLibraryPanel(db, uid, user.OrgId, flt, 1)
        result == ExecDeleteLibraryPanelDashboard(db, got.panel.ID, dashboardID)
        err == IF got.err # Nil THEN got.err
               ELSE IF flt.at \in {2, 3} THEN flt.err
               ELSE IF result.rowsAffected # 1 THEN errLibraryPanelDashboardNotFound
               ELSE Nil
    IN  [db |-> IF got.err # Nil THEN db ELSE WithTransactionalDbSession(db, result.db, err),
         err |-> err]

\* (lps *LibraryPanelService) getLibraryPanel
getLibraryPanelOfService(db, user, uid, flt) ==
    getLibraryPanel(db, uid, user.OrgId, flt, 1)

\* the orders in which a query without ORDER BY may return the rows of the set S
Orderings(S) ==
    {s \in [1..Cardinality(S) -> S] : \A i, j \in 1..Cardinality(S) : i # j => s[i] # s[j]}

\* (lps *LibraryPanelService) getAllLibraryPanels: every result the call may return
getAllLibraryPanels(db, user, flt) ==
    LET orgID == user.OrgId
        rows == {p \in db.panels : p.OrgID = orgID}
    IN  IF flt.at = 1 THEN {[list |-> <<>>, err |-> flt.err]}
        ELSE {[list |-> s, err |-> Nil] : s \in Orderings(rows)}

\* the orders in which the dashboard ids of the rows of the bag B may be returned
DashboardOrderings(B) ==
    LET n == BagCardinality(B)
        count(d) == BagCardinality([r \in {x \in BagToSet(B) : x.DashboardID = d} |-> B[r]])
    IN  {s \in [1..n -> {r.DashboardID : r \in BagToSet(B)}] :
            \A d \in {r.DashboardID : r \in BagToSet(B)} :
                Cardinality({i \in 1..n : s[i] = d}) = count(d)}

\* the rows of library_panel_dashboard WHERE librarypanel_id=?
ConnRowsOfPanel(cs, panelID) ==
    LET S == {r \in BagToSet(cs) : r.LibraryPanelID = panelID}
    IN  [r \in S |-> cs[r]]

\* getConnectedDashboards without the WHERE librarypanel_id=?
getConnectedDashboardsOfAllPanels(db, user, uid, flt) ==
    LET got == getLibraryPanel(db, uid, user.OrgId, flt, 1)
        libraryPanelDashboards == db.conns
    IN  IF got.err # Nil THEN {[ids |-> <<>>, err |-> got.err]}
        ELSE IF flt.at = 2 THEN {[ids |-> <<>>, err |-> flt.err]}
        ELSE {[ids |-> s, err |-> Nil] : s \in DashboardOrderings(libraryPanelDashboards)}

\* (lps *LibraryPanelService) getConnectedDashboards: every result the call may return
getConnectedDashboards(db, user, uid, flt) ==
    LET got == getLibraryPanel(db, uid, user.OrgId, flt, 1)
        libraryPanelDashboards == ConnRowsOfPanel(db.conns, got.panel.ID)
    IN  IF got.err # Nil THEN {[ids |-> <<>>, err |-> got.err]}
        ELSE IF flt.at = 2 THEN {[ids |-> <<>>, err |-> flt.err]}
        ELSE {[ids |-> s, err |-> Nil] : s \in DashboardOrderings(libraryPanelDashboards)}

\* patchLibraryPanel that carries updated-by forward from the stored row
patchLibraryPanelKeepsUpdatedBy(db, user, cmd, uid, now, flt) ==
    LET got == getLibraryPanel(db, uid, user.OrgId, flt, 1)
        panelInDB == got.panel
        libraryPanel ==
            [ID |-> panelInDB.ID, OrgID |-> user.OrgId,
             FolderID |-> IF cmd.FolderID = 0 THEN panelInDB.FolderID ELSE cmd.FolderID,
             UID |-> uid,
             Name |-> IF cmd.Name = "" THEN panelInDB.Name ELSE cmd.Name,
             Model |-> IF cmd.Model = NilModel THEN panelInDB.Model ELSE cmd.Model,
             Created |-> panelInDB.Created, CreatedBy |-> panelInDB.CreatedBy,
             Updated |-> now, UpdatedBy |-> panelInDB.UpdatedBy]
        upd == IF flt.at = 2 THEN [db |-> db, rowsAffected |-> 0, err |-> flt.err]
               ELSE UpdateLibraryPanel(db, panelInDB.ID, libraryPanel)
        err == IF got.err # Nil THEN got.err
               ELSE IF upd.err # Nil
               THEN IF IsUniqueConstraintViolation(upd.err)
                    THEN errLibraryPanelAlreadyExists ELSE upd.err
               ELSE IF upd.rowsAffected # 1 THEN errLibraryPanelNotFound
               ELSE Nil
    IN  [db |-> IF got.err # Nil THEN db ELSE WithTransactionalDbSession(db, upd.db, err),
         panel |-> IF got.err # Nil THEN ZeroPanel ELSE libraryPanel,
         err |-> err]

\* patchLibraryPanel without the check for a nil model
patchLibraryPanelOverwritesModel(db, user, cmd, uid, now, flt) ==
    LET got == getLibraryPanel(db, uid, user.OrgId, flt, 1)
        panelInDB == got.panel
        libraryPanel ==
            [ID |-> panelInDB.ID, OrgID |-> user.OrgId,
             FolderID |-> IF cmd.FolderID = 0 THEN panelInDB.FolderID ELSE cmd.FolderID,
             UID |-> uid,
             Name |-> IF cmd.Name = "" THEN panelInDB.Name ELSE cmd.Name,
             Model |-> cmd.Model,
             Created |-> panelInDB.Created, CreatedBy |-> panelInDB.CreatedBy,
             Updated |-> now, UpdatedBy |-> user.UserId]
        upd == IF flt.at = 2 THEN [db |-> db, rowsAffected |-> 0, err |-> flt.err]
               ELSE UpdateLibraryPanel(db, panelInDB.ID, libraryPanel)
        err == IF got.err # Nil THEN got.err
               ELSE IF upd.err # Nil
               THEN IF IsUniqueConstraintViolation(upd.err)
                    THEN errLibraryPanelAlreadyExists ELSE upd.err
               ELSE IF upd.rowsAffected # 1 THEN errLibraryPanelNotFound
               ELSE Nil
    IN  [db |-> IF got.err # Nil THEN db ELSE WithTransactionalDbSession(db, upd.db, err),
         panel |-> IF got.err # Nil THEN ZeroPanel ELSE libraryPanel,
         err |-> err]

\* (lps *LibraryPanelService) patchLibraryPanel
patchLibraryPanel(db, user, cmd, uid, now, flt) ==
    LET got == getLibraryPanel(db, uid, user.OrgId, flt, 1)
        panelInDB == got.panel
        libraryPanel ==
            [ID |-> panelInDB.ID, OrgID |-> user.OrgId,
             FolderID |-> IF cmd.FolderID = 0 THEN panelInDB.FolderID ELSE cmd.FolderID,
             UID |-> uid,
             Name |-> IF cmd.Name = "" THEN panelInDB.Name ELSE cmd.Name,
             Model |-> IF cmd.Model = NilModel THEN panelInDB.Model ELSE cmd.Model,
             Created |-> panelInDB.Created, CreatedBy |-> panelInDB.CreatedBy,
             Updated |-> now, UpdatedBy |-> user.UserId]
        upd == IF flt.at = 2 THEN [db |-> db, rowsAffected |-> 0, err |-> flt.err]
               ELSE UpdateLibraryPanel(db, panelInDB.ID, libraryPanel)
        err == IF got.err # Nil THEN got.err
               ELSE IF upd.err # Nil
               THEN IF IsUniqueConstraintViolation(upd.err)
                    THEN errLibraryPanelAlreadyExists ELSE upd.err
               ELSE IF upd.rowsAffected # 1 THEN errLibraryPanelNotFound
               ELSE Nil
    IN  [db |-> IF got.err # Nil THEN db ELSE WithTransactionalDbSession(db, upd.db, err),
         panel |-> IF got.err # Nil THEN ZeroPanel ELSE libraryPanel,
         err |-> err]

----------------------------------------------------------------------------
(* database.go, statement by statement: what a handler does after its lookup.  A    *)
(* call that runs next to another one executes its lookup and its write as two      *)
(* statements, and the other call's statements may run between them.                *)

\* context.Background(), which every handler hands to the session it opens: a
\* context that is never done, whether the caller of the handler has cancelled the
\* request or not
contextBackground == [done |-> FALSE]

\* the context of the session a handler opens: the one the handler hands to
\* WithTransactionalDbSession, which is context.Background() in every handler
ctxOf(session) == contextBackground

\* the error of a session whose context is done
errContextCanceled == "context canceled"

\* connectDashboard after its lookup, returning the unique-constraint violation
connectDashboardInsertReportsConflict(db, user, panel, dashboardID, now) ==
    LET libraryPanelDashboard ==
            [DashboardID |-> dashboardID, LibraryPanelID |-> panel.ID,
             Created |-> now, CreatedBy |-> user.UserId]
        ins == InsertLibraryPanelDashboard(db, libraryPanelDashboard)
    IN  [db |-> WithTransactionalDbSession(db, ins.db, ins.err), err |-> ins.err]

\* connectDashboard after its lookup returned panel: the insert of the connection
connectDashboardInsert(db, user, panel, dashboardID, now) ==
    LET libraryPanelDashboard ==
            [DashboardID |-> dashboardID, LibraryPanelID |-> panel.ID,
             Created |-> now, CreatedBy |-> user.UserId]
        ins == InsertLibraryPanelDashboard(db, libraryPanelDashboard)
        err == IF ins.err # Nil
               THEN IF IsUniqueConstraintViolation(ins.err) THEN Nil ELSE ins.err
               ELSE Nil
    IN  [db |-> WithTransactionalDbSession(db, ins.db, err), err |-> err]

\* disconnectDashboard after its lookup returned panel: the DELETE of the connection
disconnectDashboardExec(db, panel, dashboardID) ==
    LET result == ExecDeleteLibraryPanelDashboard(db, panel.ID, dashboardID)
        err == IF result.rowsAffected # 1 THEN errLibraryPanelDashboardNotFound ELSE Nil
    IN  [db |-> WithTransactionalDbSession(db, result.db, err), err |-> err]

\* getConnectedDashboards after its lookup returned panel: the Find of its rows
\* and the dashboard ids of the rows, in every order the Find may return them
getConnectedDashboardsFind(db, panel) ==
    LET libraryPanelDashboards == ConnRowsOfPanel(db.conns, panel.ID)
    IN  {[ids |-> s, err |-> Nil] : s \in DashboardOrderings(libraryPanelDashboards)}

\* patchLibraryPanel after its lookup, without the check of the affected rows
patchLibraryPanelUpdateUnchecked(db, user, cmd, uid, panelInDB, now) ==
    LET libraryPanel ==
            [ID |-> panelInDB.ID, OrgID |-> user.OrgId,
             FolderID |-> IF cmd.FolderID = 0 THEN panelInDB.FolderID ELSE cmd.FolderID,
             UID |-> uid,
             Name |-> IF cmd.Name = "" THEN panelInDB.Name ELSE cmd.Name,
             Model |-> IF cmd.Model = NilModel THEN panelInDB.Model ELSE cmd.Model,
             Created |-> panelInDB.Created, CreatedBy |-> panelInDB.CreatedBy,
             Updated |-> now, UpdatedBy |-> user.UserId]
        upd == UpdateLibraryPanel(db, panelInDB.ID, libraryPanel)
        err == IF upd.err # Nil
               THEN IF IsUniqueConstraintViolation(upd.err)
                    THEN errLibraryPanelAlreadyExists ELSE upd.err
               ELSE Nil
    IN  [db |-> WithTransactionalDbSession(db, upd.db, err), panel |-> libraryPanel,
         err |-> err]

\* patchLibraryPanel after its lookup returned panelInDB: the merge and the update
patchLibraryPanelUpdate(db, user, cmd, uid, panelInDB, now) ==
    LET libraryPanel ==
            [ID |-> panelInDB.ID, OrgID |-> user.OrgId,
             FolderID |-> IF cmd.FolderID = 0 THEN panelInDB.FolderID ELSE cmd.FolderID,
             UID |-> uid,
             Name |-> IF cmd.Name = "" THEN panelInDB.Name ELSE cmd.Name,
             Model |-> IF cmd.Model = NilModel THEN panelInDB.Model ELSE cmd.Model,
             Created |-> panelInDB.Created, CreatedBy |-> panelInDB.CreatedBy,
             Updated |-> now, UpdatedBy |-> user.UserId]
        upd == UpdateLibraryPanel(db, panelInDB.ID, libraryPanel)
        err == IF upd.err # Nil
               THEN IF IsUniqueConstraintViolation(upd.err)
                    THEN errLibraryPanelAlreadyExists ELSE upd.err
               ELSE IF upd.rowsAffected # 1 THEN errLibraryPanelNotFound
               ELSE Nil
    IN  [db |-> WithTransactionalDbSession(db, upd.db, err), panel |-> libraryPanel,
         err |-> err]

----------------------------------------------------------------------------
(* The calls *)

db == DB(panels, conns, nextID)

\* a call: the handler, its arguments, the fault the storage raised while it ran,
\* and what it returned
Call(op, user, uid, dash, cmd, flt, err, panel, list, ids) ==
    [op |-> op, user |-> user, uid |-> uid, dash |-> dash, cmd |-> cmd, flt |-> flt,
     err |-> err, panel |-> panel, list |-> list, ids |-> ids]

NoUser == [UserId |-> 0, OrgId |-> 0]

\* no call is running
Ready == Call("ready", NoUser, "", 0, NoCmd, NoFault, Nil, ZeroPanel, <<>>, <<>>)

\* the tables after a call
Store(after) ==
    /\ panels' = after.panels
    /\ conns' = after.conns
    /\ nextID' = after.nextID

\* the calls that can run at the same time
Sessions == {"s1", "s2"}

\* a session: the handler that runs in it, its arguments, the statement it is at
\* (pc), the panel its lookup returned, the dashboard ids it has read, whether its
\* caller has cancelled the request, and the error it returns
Session(pc, op, user, uid, dash, cmd, panel, ids, cancelled, err) ==
    [pc |-> pc, op |-> op, user |-> user, uid |-> uid, dash |-> dash, cmd |-> cmd,
     panel |-> panel, ids |-> ids, cancelled |-> cancelled, err |-> err]

\* no call runs in the session
Idle == Session("idle", "", NoUser, "", 0, NoCmd, ZeroPanel, <<>>, FALSE, Nil)

Init ==
    /\ panels = {}
    /\ conns = EmptyBag
    /\ nextID = 1
    /\ last = Ready
    /\ deleted = {}
    /\ sessions = [s \in Sessions |-> Idle]

CreatePanel(in) ==
    \E user \in in.users, cmd \in in.cmds, uid \in in.uids, id \in AssignableIDs(db),
       created \in in.times, updated \in in.times, flt \in Faults(1, in) :
        /\ last = Ready
        /\ nextID <= MaxID
        /\ created <= updated
        /\ LET r == createLibraryPanel(db, user, cmd, uid, id, created, updated, flt)
           IN  /\ Store(r.db)
               /\ last' = Call("createLibraryPanel", user, uid, 0, cmd, flt, r.err, r.panel, <<>>, <<>>)
               /\ UNCHANGED <<deleted, sessions>>

ConnectDashboard(in) ==
    \E user \in in.users, uid \in in.uids, dashboardID \in in.dashboards,
       now \in in.times, flt \in Faults(2, in) :
        /\ last = Ready
        /\ LET r == connectDashboard(db, user, uid, dashboardID, now, flt)
           IN  /\ Store(r.db)
               /\ last' = Call("connectDashboard", user, uid, dashboardID, NoCmd, flt, r.err,
                               ZeroPanel, <<>>, <<>>)
               /\ UNCHANGED <<deleted, sessions>>

DeletePanel(in) ==
    \E user \in in.users, uid \in in.uids, flt \in Faults(2, in) :
        /\ last = Ready
        /\ LET r == deleteLibraryPanel(db, user, uid, flt)
           IN  /\ Store(r.db)
               /\ last' = Call("deleteLibraryPanel", user, uid, 0, NoCmd, flt, r.err,
                               ZeroPanel, <<>>, <<>>)
               /\ deleted' = IF r.err = Nil THEN deleted \cup {uid} ELSE deleted
               /\ UNCHANGED sessions

DisconnectDashboard(in) ==
    \E user \in in.users, uid \in in.uids, dashboardID \in in.dashboards,
       flt \in Faults(3, in) :
        /\ last = Ready
        /\ LET r == disconnectDashboard(db, user, uid, dashboardID, flt)
           IN  /\ Store(r.db)
               /\ last' = Call("disconnectDashboard", user, uid, dashboardID, NoCmd, flt, r.err,
                               ZeroPanel, <<>>, <<>>)
               /\ UNCHANGED <<deleted, sessions>>

GetPanel(in) ==
    \E user \in in.users, uid \in in.uids, flt \in Faults(1, in) :
        /\ last = Ready
        /\ LET r == getLibraryPanelOfService(db, user, uid, flt)
           IN  last' = Call("getLibraryPanel", user, uid, 0, NoCmd, flt, r.err, r.panel, <<>>, <<>>)
        /\ UNCHANGED <<panels, conns, nextID, deleted, sessions>>

ListPanels(in) ==
    \E user \in in.users, flt \in Faults(1, in) :
        /\ last = Ready
        /\ \E r \in getAllLibraryPanels(db, user, flt) :
               last' = Call("getAllLibraryPanels", user, "", 0, NoCmd, flt, r.err,
                            ZeroPanel, r.list, <<>>)
        /\ UNCHANGED <<panels, conns, nextID, deleted, sessions>>

ListConnectedDashboards(in) ==
    \E user \in in.users, uid \in in.uids, flt \in Faults(2, in) :
        /\ last = Ready
        /\ \E r \in getConnectedDashboards(db, user, uid, flt) :
               last' = Call("getConnectedDashboards", user, uid, 0, NoCmd, flt, r.err,
                            ZeroPanel, <<>>, r.ids)
        /\ UNCHANGED <<panels, conns, nextID, deleted, sessions>>

PatchPanel(in) ==
    \E user \in in.users, cmd \in in.cmds, uid \in in.uids, now \in in.times,
       flt \in Faults(2, in) :
        /\ last = Ready
        /\ LET r == patchLibraryPanel(db, user, cmd, uid, now, flt)
           IN  /\ Store(r.db)
               /\ last' = Call("patchLibraryPanel", user, uid, 0, cmd, flt, r.err, r.panel, <<>>, <<>>)
               /\ UNCHANGED <<deleted, sessions>>

\* the call returns to its caller; the next call may run
Return ==
    /\ last # Ready
    /\ last' = Ready
    /\ UNCHANGED <<panels, conns, nextID, deleted, sessions>>

Calls(in) ==
    \/ CreatePanel(in)
    \/ ConnectDashboard(in)
    \/ DeletePanel(in)
    \/ DisconnectDashboard(in)
    \/ GetPanel(in)
    \/ ListPanels(in)
    \/ ListConnectedDashboards(in)
    \/ PatchPanel(in)
    \/ Return

Next == Calls(PanelInputs)
NextConnections == Calls(ConnectionInputs)
NextFaults == Calls(FaultInputs)

Spec == Init /\ [][Next]_vars
SpecConnections == Init /\ [][NextConnections]_vars
SpecFaults == Init /\ [][NextFaults]_vars

\* the inputs of the calls that show what a patch leaves alone: two users of one
\* organization and two uids
FrameInputs ==
    [users |-> {u \in SignedInUsers : u.OrgId = 1}, uids |-> UIDs, cmds |-> {NoCmd, FullCmd},
     dashboards |-> {7}, times |-> {1}, faults |-> {}]

NextFrames == Calls(FrameInputs)
SpecFrames == Init /\ [][NextFrames]_vars

----------------------------------------------------------------------------
(* Concurrent calls.  Each call runs in a session of its own and executes its       *)
(* statements one at a time; between two statements of one session the statements   *)
(* of the other may run.  A statement reads what is committed.  A handler's write   *)
(* is its last statement and the session commits (or rolls back) right after it,    *)
(* holding the lock on the row in between, so the write and the commit are one      *)
(* step.                                                                             *)

\* the commands of the concurrent calls: each sets one field, and the folder has two
\* values that are not zero, so that a value carried forward can differ from the
\* stored one
ConcurrentCmds ==
    {[FolderID |-> 1, Name |-> "", Model |-> NilModel],
     [FolderID |-> 2, Name |-> "", Model |-> NilModel],
     [FolderID |-> 0, Name |-> "CPU", Model |-> NilModel]}

\* the inputs of the concurrent calls: one organization, one uid
ConcurrentInputs ==
    [users |-> {u \in SignedInUsers : u.UserId = 1}, uids |-> {"a"},
     cmds |-> ConcurrentCmds, dashboards |-> {7}, times |-> {1}, faults |-> {}]

\* the handlers that use WithTransactionalDbSession
Writers == {"createLibraryPanel", "connectDashboard", "deleteLibraryPanel",
            "disconnectDashboard", "patchLibraryPanel"}

\* the handler that executes two statements in a session without a transaction
Readers == {"getConnectedDashboards"}

\* the handlers whose callback starts with getLibraryPanel(session, uid, orgID)
LookupFirst == {"connectDashboard", "disconnectDashboard", "patchLibraryPanel",
                "getConnectedDashboards"}

\* the creates that have not executed their insert yet
CreatesInFlight == {s \in Sessions : sessions[s].op = "createLibraryPanel" /\ sessions[s].pc = "write"}

\* the session ends without a write: its context is done
Abort(s) ==
    /\ sessions' = [sessions EXCEPT ![s].pc = "done", ![s].err = errContextCanceled]
    /\ UNCHANGED <<panels, conns, nextID, deleted>>

\* a handler is called: it opens its session
BeginCall(in) ==
    \E s \in Sessions, op \in Writers \cup Readers, user \in in.users, uid \in in.uids,
       dashboardID \in in.dashboards, cmd \in in.cmds :
        /\ sessions[s] = Idle
        /\ op = "createLibraryPanel" => nextID + Cardinality(CreatesInFlight) <= MaxID
        /\ sessions' = [sessions EXCEPT ![s] =
               Session(IF op \in LookupFirst THEN "find" ELSE "write", op, user, uid,
                       IF op \in {"connectDashboard", "disconnectDashboard"}
                       THEN dashboardID ELSE 0,
                       IF op \in {"createLibraryPanel", "patchLibraryPanel"}
                       THEN cmd ELSE NoCmd,
                       ZeroPanel, <<>>, FALSE, Nil)]
        /\ UNCHANGED <<panels, conns, nextID, last, deleted>>

\* the caller of a running call cancels the request
CancelCall ==
    \E s \in Sessions :
        /\ sessions[s].pc \in {"find", "read", "write"}
        /\ ~sessions[s].cancelled
        /\ sessions' = [sessions EXCEPT ![s].cancelled = TRUE]
        /\ UNCHANGED <<panels, conns, nextID, last, deleted>>

\* getLibraryPanel(session, uid, orgID) at the start of a callback
FindPanel ==
    \E s \in Sessions :
        /\ sessions[s].pc = "find"
        /\ IF ctxOf(sessions[s]).done
           THEN Abort(s)
           ELSE LET got == getLibraryPanel(db, sessions[s].uid, sessions[s].user.OrgId,
                                           NoFault, 1)
                IN  /\ sessions' = [sessions EXCEPT
                           ![s].pc = IF got.err # Nil THEN "done"
                                     ELSE IF sessions[s].op \in Readers THEN "read"
                                     ELSE "write",
                           ![s].panel = got.panel,
                           ![s].err = got.err]
                    /\ UNCHANGED <<panels, conns, nextID, deleted>>
        /\ UNCHANGED last

\* getConnectedDashboards: the Find of the rows of library_panel_dashboard of the
\* panel that the lookup returned; it reads what is committed when it runs
FindConnections ==
    \E s \in Sessions :
        /\ sessions[s].pc = "read"
        /\ IF ctxOf(sessions[s]).done
           THEN Abort(s)
           ELSE /\ \E r \in getConnectedDashboardsFind(db, sessions[s].panel) :
                       sessions' = [sessions EXCEPT ![s].pc = "done", ![s].ids = r.ids,
                                                    ![s].err = r.err]
                /\ UNCHANGED <<panels, conns, nextID, deleted>>
        /\ UNCHANGED last

\* the write of a session and the end of its transaction
Write(s, after, panel, err) ==
    /\ Store(after)
    /\ sessions' = [sessions EXCEPT ![s].pc = "done", ![s].panel = panel, ![s].err = err]

\* createLibraryPanel: session.Insert(&libraryPanel)
InsertPanel(in) ==
    \E s \in Sessions, id \in AssignableIDs(db), created \in in.times,
       updated \in in.times :
        /\ sessions[s].pc = "write"
        /\ sessions[s].op = "createLibraryPanel"
        /\ created <= updated
        /\ IF ctxOf(sessions[s]).done
           THEN Abort(s)
           ELSE LET r == createLibraryPanel(db, sessions[s].user, sessions[s].cmd,
                                            sessions[s].uid, id, created, updated, NoFault)
                IN  Write(s, r.db, r.panel, r.err) /\ UNCHANGED deleted
        /\ UNCHANGED last

\* connectDashboard: session.Insert(&libraryPanelDashboard)
InsertConnection(in) ==
    \E s \in Sessions, now \in in.times :
        /\ sessions[s].pc = "write"
        /\ sessions[s].op = "connectDashboard"
        /\ IF ctxOf(sessions[s]).done
           THEN Abort(s)
           ELSE LET r == connectDashboardInsert(db, sessions[s].user, sessions[s].panel,
                                                sessions[s].dash, now)
                IN  Write(s, r.db, sessions[s].panel, r.err) /\ UNCHANGED deleted
        /\ UNCHANGED last

\* deleteLibraryPanel: DELETE FROM library_panel
DeletePanelRow ==
    \E s \in Sessions :
        /\ sessions[s].pc = "write"
        /\ sessions[s].op = "deleteLibraryPanel"
        /\ IF ctxOf(sessions[s]).done
           THEN Abort(s)
           ELSE LET r == deleteLibraryPanel(db, sessions[s].user, sessions[s].uid, NoFault)
                IN  /\ Write(s, r.db, ZeroPanel, r.err)
                    /\ deleted' = IF r.err = Nil THEN deleted \cup {sessions[s].uid}
                                  ELSE deleted
        /\ UNCHANGED last

\* disconnectDashboard: DELETE FROM library_panel_dashboard
DeleteConnection ==
    \E s \in Sessions :
        /\ sessions[s].pc = "write"
        /\ sessions[s].op = "disconnectDashboard"
        /\ IF ctxOf(sessions[s]).done
           THEN Abort(s)
           ELSE LET r == disconnectDashboardExec(db, sessions[s].panel, sessions[s].dash)
                IN  Write(s, r.db, sessions[s].panel, r.err) /\ UNCHANGED deleted
        /\ UNCHANGED last

\* patchLibraryPanel: session.ID(panelInDB.ID).Update(&libraryPanel)
UpdatePanel(in) ==
    \E s \in Sessions, now \in in.times :
        /\ sessions[s].pc = "write"
        /\ sessions[s].op = "patchLibraryPanel"
        /\ IF ctxOf(sessions[s]).done
           THEN Abort(s)
           ELSE LET r == patchLibraryPanelUpdate(db, sessions[s].user, sessions[s].cmd,
                                                 sessions[s].uid, sessions[s].panel, now)
                IN  Write(s, r.db, r.panel, r.err) /\ UNCHANGED deleted
        /\ UNCHANGED last

\* the call returns to its caller; the session is free for the next call
ReturnCall ==
    \E s \in Sessions :
        /\ sessions[s].pc = "done"
        /\ sessions' = [sessions EXCEPT ![s] = Idle]
        /\ UNCHANGED <<panels, conns, nextID, last, deleted>>

NextConcurrent ==
    \/ BeginCall(ConcurrentInputs)
    \/ CancelCall
    \/ FindPanel
    \/ FindConnections
    \/ InsertPanel(ConcurrentInputs)
    \/ InsertConnection(ConcurrentInputs)
    \/ DeletePanelRow
    \/ DeleteConnection
    \/ UpdatePanel(ConcurrentInputs)
    \/ ReturnCall

SpecConcurrent == Init /\ [][NextConcurrent]_vars

----------------------------------------------------------------------------
(* Properties *)

\* the rows of library_panel a lookup by (uid, orgID) matches
PanelsOf(ps, uid, orgID) == {p \in ps : p.UID = uid /\ p.OrgID = orgID}

\* the internal key of the panel (uid, orgID)
KeyOf(ps, uid, orgID) == (CHOOSE p \in PanelsOf(ps, uid, orgID) : TRUE).ID

\* how many connection rows (panelID, dashboardID) has
Count(cs, panelID, dashboardID) == BagCardinality(ConnRows(cs, panelID, dashboardID))

\* the database after the step
dbAfter == DB(panels', conns', nextID')

(* C1.  connectDashboard on an existing panel (uid, org) succeeds and leaves exactly *)
(* one connection row (panel key, d); when the pair is connected already the call    *)
(* changes neither table, so of two calls in a row the second succeeds and changes   *)
(* nothing.                                                                         *)
ConnectIsIdempotent ==
    [][ (last'.op = "connectDashboard" /\ last'.flt = NoFault
            /\ PanelsOf(panels, last'.uid, last'.user.OrgId) # {}) =>
        LET id == KeyOf(panels, last'.uid, last'.user.OrgId)
            d == last'.dash
        IN  /\ last'.err = Nil
            /\ Count(conns', id, d) = 1
            /\ panels' = panels
            /\ Count(conns, id, d) >= 1 => conns' = conns
            /\ \A user2 \in {u \in SignedInUsers : u.OrgId = last'.user.OrgId}, now2 \in Times :
                   LET again == connectDashboard(dbAfter, user2, last'.uid, d, now2, NoFault)
                   IN  again.err = Nil /\ again.db = dbAfter
      ]_vars

\* C1: a connect has succeeded on a pair that another user had connected before
ConnectedTwice ==
    /\ last.op = "connectDashboard"
    /\ last.err = Nil
    /\ \E p \in PanelsOf(panels, last.uid, last.user.OrgId) :
           /\ Count(conns, p.ID, last.dash) = 1
           /\ \E r \in BagToSet(conns) :
                  /\ r.LibraryPanelID = p.ID
                  /\ r.DashboardID = last.dash
                  /\ r.CreatedBy # last.user.UserId

(* C2.  A successful patchLibraryPanel returns, and stores under the same internal  *)
(* key, a row whose folder id, name and model are the command's where the command's *)
(* value is not the zero value (0, "", nil) and the existing row's otherwise.       *)
PatchMergesFields ==
    [][ (last'.op = "patchLibraryPanel" /\ last'.err = Nil) =>
        \E old \in PanelsOf(panels, last'.uid, last'.user.OrgId) :
            LET cmd == last'.cmd
                new == last'.panel
            IN  /\ new.FolderID = IF cmd.FolderID # 0 THEN cmd.FolderID ELSE old.FolderID
                /\ new.Name = IF cmd.Name # "" THEN cmd.Name ELSE old.Name
                /\ new.Model = IF cmd.Model # NilModel THEN cmd.Model ELSE old.Model
                /\ new.ID = old.ID
                /\ {p \in panels' : p.ID = old.ID} = {new}
      ]_vars

\* C2: a patch that set the folder and left name and model unset has kept both
PatchedSomeFields ==
    /\ last.op = "patchLibraryPanel"
    /\ last.err = Nil
    /\ last.cmd = [FolderID |-> 1, Name |-> "", Model |-> NilModel]
    /\ last.panel.FolderID = 1
    /\ last.panel.Name = "CPU"
    /\ last.panel.Model = "graph"
    /\ last.panel \in panels

(* C3.  A successful deleteLibraryPanel removes the one row that matches (uid, org) *)
(* and nothing else: every other panel row and every connection row, those of the  *)
(* deleted panel included, stay.                                                    *)
DeleteRemovesOnlyThePanel ==
    [][ (last'.op = "deleteLibraryPanel" /\ last'.err = Nil) =>
        \E p \in PanelsOf(panels, last'.uid, last'.user.OrgId) :
            /\ panels' = panels \ {p}
            /\ PanelsOf(panels', last'.uid, last'.user.OrgId) = {}
            /\ conns' = conns
      ]_vars

\* C3: a delete has succeeded, another panel is stored, and a connection row of a
\* panel that is stored no more is left
DeletedWithConnections ==
    /\ last.op = "deleteLibraryPanel"
    /\ last.err = Nil
    /\ panels # {}
    /\ \E r \in BagToSet(conns) : \A p \in panels : p.ID # r.LibraryPanelID

(* C4.  disconnectDashboard on an existing panel: when (panel key, d) is connected  *)
(* it succeeds and removes that one row, and the same call repeated fails with      *)
(* errLibraryPanelDashboardNotFound; when the pair is not connected it fails with   *)
(* errLibraryPanelDashboardNotFound and removes nothing.                            *)
DisconnectRemovesOneRow ==
    [][ (last'.op = "disconnectDashboard" /\ last'.flt = NoFault
            /\ PanelsOf(panels, last'.uid, last'.user.OrgId) # {}) =>
        LET id == KeyOf(panels, last'.uid, last'.user.OrgId)
            d == last'.dash
            again == disconnectDashboard(dbAfter, last'.user, last'.uid, d, NoFault)
        IN  /\ panels' = panels
            /\ IF Count(conns, id, d) >= 1
               THEN /\ last'.err = Nil
                    /\ \E r \in BagToSet(conns) :
                           /\ r.LibraryPanelID = id
                           /\ r.DashboardID = d
                           /\ conns = conns' (+) SetToBag({r})
                    /\ Count(conns', id, d) = 0
                    /\ again.err = errLibraryPanelDashboardNotFound
                    /\ again.db = dbAfter
               ELSE /\ last'.err = errLibraryPanelDashboardNotFound
                    /\ conns' = conns
      ]_vars

\* C4: a disconnect has succeeded and other connections are left
Disconnected ==
    /\ last.op = "disconnectDashboard"
    /\ last.err = Nil
    /\ \E p \in PanelsOf(panels, last.uid, last.user.OrgId) :
           /\ Count(conns, p.ID, last.dash) = 0
           /\ \E r \in BagToSet(conns) : r.LibraryPanelID = p.ID

\* the elements of a sequence
Range(seq) == {seq[i] : i \in DOMAIN seq}

\* the uids of the stored panels
StoredUIDs(ps) == {p.UID : p \in ps}

(* C5.  After a successful createLibraryPanel that returns P, getLibraryPanel with   *)
(* the creator's organization and P.UID returns P: folder id, name, model and        *)
(* organization are the supplied ones, UID and ID are set, CreatedBy and UpdatedBy   *)
(* are the actor.  What getLibraryPanel returns for a (uid, org) is the stored row   *)
(* and is changed by no call but a successful create, patch or delete of that uid.   *)
CreateThenGet ==
    [][ /\ (last'.op = "createLibraryPanel" /\ last'.err = Nil) =>
            LET P == last'.panel
                cmd == last'.cmd
                actor == last'.user
            IN  /\ P.UID = last'.uid /\ P.UID # "" /\ P.ID # 0
                /\ \A user2 \in {u \in SignedInUsers : u.OrgId = actor.OrgId} :
                       LET g == getLibraryPanelOfService(dbAfter, user2, P.UID, NoFault)
                       IN  /\ g.err = Nil
                           /\ g.panel = P
                           /\ g.panel.FolderID = cmd.FolderID
                           /\ g.panel.Name = cmd.Name
                           /\ g.panel.Model = cmd.Model
                           /\ g.panel.OrgID = actor.OrgId
                           /\ g.panel.CreatedBy = actor.UserId
                           /\ g.panel.UpdatedBy = actor.UserId
        /\ \A uid \in UIDs, user2 \in SignedInUsers :
               ~ ( /\ last'.op \in {"createLibraryPanel", "patchLibraryPanel",
                                    "deleteLibraryPanel"}
                   /\ last'.err = Nil
                   /\ last'.uid = uid )
               => getLibraryPanelOfService(dbAfter, user2, uid, NoFault)
                      = getLibraryPanelOfService(db, user2, uid, NoFault)
        /\ (last'.op = "getLibraryPanel" /\ last'.err = Nil) =>
               PanelsOf(panels, last'.uid, last'.user.OrgId) = {last'.panel}
      ]_vars

\* C5: a user has got the panel another user of the organization created, every
\* field as it was supplied
GotTheCreatedPanel ==
    /\ last.op = "getLibraryPanel"
    /\ last.err = Nil
    /\ last.panel.UID = last.uid
    /\ last.panel.CreatedBy # last.user.UserId
    /\ last.panel.CreatedBy = last.panel.UpdatedBy
    /\ last.panel.FolderID = 1 /\ last.panel.Name = "CPU" /\ last.panel.Model = "graph"

(* C6.  createLibraryPanel with a UID that a stored panel has fails with             *)
(* errLibraryPanelAlreadyExists and inserts no row (when the storage does not fail   *)
(* otherwise); a storage fault is returned as it is, never as                        *)
(* errLibraryPanelAlreadyExists, and no row is inserted.                            *)
CreateCollision ==
    [][ last'.op = "createLibraryPanel" =>
        LET collides == \E p \in panels : p.UID = last'.uid
        IN  /\ (last'.flt = NoFault /\ collides) =>
                   /\ last'.err = errLibraryPanelAlreadyExists
                   /\ UNCHANGED <<panels, conns, nextID>>
            /\ last'.flt # NoFault =>
                   /\ last'.err = last'.flt.err
                   /\ last'.err # errLibraryPanelAlreadyExists
                   /\ UNCHANGED <<panels, conns, nextID>>
            /\ last'.err = errLibraryPanelAlreadyExists => collides
      ]_vars

\* C6: a create was handed the UID of a stored panel of another organization
CreateCollided ==
    /\ last.op = "createLibraryPanel"
    /\ last.err = errLibraryPanelAlreadyExists
    /\ \E p \in panels : p.UID = last.uid /\ p.OrgID # last.user.OrgId

(* C7.  getConnectedDashboards of an existing panel returns, as a set, the dashboard *)
(* ids of the stored rows of the panel's key, one entry a row: an id is in the       *)
(* result after a successful connect, not in it after a successful disconnect, and   *)
(* no other call changes the result.                                                *)
ListIsTheConnectedSet ==
    [][ /\ (last'.op = "getConnectedDashboards" /\ last'.err = Nil) =>
            /\ PanelsOf(panels, last'.uid, last'.user.OrgId) # {}
            /\ LET id == KeyOf(panels, last'.uid, last'.user.OrgId)
               IN  /\ Range(last'.ids) = {d \in DashboardIDs : Count(conns, id, d) >= 1}
                   /\ Len(last'.ids) = Cardinality(Range(last'.ids))
        /\ (last'.op = "connectDashboard" /\ last'.err = Nil) =>
               \A r \in getConnectedDashboards(dbAfter, last'.user, last'.uid, NoFault) :
                   r.err = Nil /\ last'.dash \in Range(r.ids)
        /\ (last'.op = "disconnectDashboard" /\ last'.err = Nil) =>
               \A r \in getConnectedDashboards(dbAfter, last'.user, last'.uid, NoFault) :
                   r.err = Nil /\ last'.dash \notin Range(r.ids)
        /\ \A user2 \in SignedInUsers, uid \in UIDs, d \in DashboardIDs :
               ( /\ PanelsOf(panels, uid, user2.OrgId) # {}
                 /\ PanelsOf(panels', uid, user2.OrgId) # {}
                 /\ ~ ( /\ last'.op \in {"connectDashboard", "disconnectDashboard"}
                        /\ last'.err = Nil
                        /\ last'.uid = uid /\ last'.dash = d ) )
               => ( (\E r \in getConnectedDashboards(dbAfter, user2, uid, NoFault) :
                         d \in Range(r.ids))
                    <=> (\E r \in getConnectedDashboards(db, user2, uid, NoFault) :
                         d \in Range(r.ids)) )
      ]_vars

\* C7: the list of a panel connected to dashboards 7 and 9, while the other panel
\* is connected to fewer
ListedTwoDashboards ==
    /\ last.op = "getConnectedDashboards"
    /\ last.err = Nil
    /\ Range(last.ids) = {7, 9}
    /\ BagCardinality(conns) = 3

(* C8.  connectDashboard, disconnectDashboard and getConnectedDashboards with a      *)
(* (uid, org) that matches no panel row fail with errLibraryPanelNotFound, which is  *)
(* not errLibraryPanelDashboardNotFound, and leave both tables as they were.         *)
MissingPanelIsNotFound ==
    [][ ( /\ last'.op \in {"connectDashboard", "disconnectDashboard",
                           "getConnectedDashboards"}
          /\ last'.flt = NoFault
          /\ PanelsOf(panels, last'.uid, last'.user.OrgId) = {} ) =>
        /\ last'.err = errLibraryPanelNotFound
        /\ last'.err # errLibraryPanelDashboardNotFound
        /\ last'.ids = <<>>
        /\ conns' = conns
        /\ panels' = panels
      ]_vars

\* C8: a disconnect by an organization that has no panel of that uid, while the
\* panel of another organization with that uid is connected to the dashboard
DisconnectedMissingPanel ==
    /\ last.op = "disconnectDashboard"
    /\ last.err = errLibraryPanelNotFound
    /\ PanelsOf(panels, last.uid, last.user.OrgId) = {}
    /\ \E p \in panels : p.UID = last.uid /\ Count(conns, p.ID, last.dash) = 1

(* C9.  A call made for organization A changes no panel row of another organization *)
(* and no connection row of a panel of another organization, returns only panel     *)
(* rows of A and only connections of a panel of A, and fails with                   *)
(* errLibraryPanelNotFound when it names a uid that a panel of another organization *)
(* has and no panel of A.                                                           *)
TenantIsolation ==
    [][ last'.op \notin {"ready"} =>
        LET A == last'.user.OrgId
        IN  /\ {p \in panels' : p.OrgID # A} = {p \in panels : p.OrgID # A}
            /\ \A p \in panels : p.OrgID # A =>
                   ConnRowsOfPanel(conns', p.ID) = ConnRowsOfPanel(conns, p.ID)
            /\ last'.panel # ZeroPanel => last'.panel.OrgID = A
            /\ \A i \in DOMAIN last'.list :
                   last'.list[i].OrgID = A /\ last'.list[i] \in panels
            /\ (last'.op = "getConnectedDashboards" /\ last'.err = Nil) =>
                   \E p \in PanelsOf(panels, last'.uid, A) :
                       Range(last'.ids) = {r.DashboardID : r \in
                                              BagToSet(ConnRowsOfPanel(conns, p.ID))}
            /\ ( /\ last'.op \in {"getLibraryPanel", "patchLibraryPanel",
                                  "deleteLibraryPanel", "connectDashboard",
                                  "disconnectDashboard", "getConnectedDashboards"}
                 /\ last'.flt = NoFault
                 /\ PanelsOf(panels, last'.uid, A) = {}
                 /\ \E p \in panels : p.UID = last'.uid /\ p.OrgID # A ) =>
                   /\ last'.err = errLibraryPanelNotFound
                   /\ UNCHANGED <<panels, conns, nextID>>
      ]_vars

\* C9: a patch of a uid that a panel of another organization has
PatchedAcrossTenants ==
    /\ last.op = "patchLibraryPanel"
    /\ last.err = errLibraryPanelNotFound
    /\ last.cmd = FullCmd
    /\ \E p \in panels : p.UID = last.uid /\ p.OrgID # last.user.OrgId

(* C10.  A uid is stored only after a create returned it, stays stored across        *)
(* patches, and once deleteLibraryPanel has succeeded on it every call on that uid   *)
(* fails with errLibraryPanelNotFound and no panel has that uid again.  deleted is   *)
(* the set of the uids on which a deleteLibraryPanel has succeeded.                  *)
DeletedIsTerminal ==
    [][ /\ \A u \in StoredUIDs(panels') \ StoredUIDs(panels) :
               last'.op = "createLibraryPanel" /\ last'.err = Nil /\ last'.panel.UID = u
        /\ last'.op = "patchLibraryPanel" => StoredUIDs(panels') = StoredUIDs(panels)
        /\ ( /\ last'.op \in {"getLibraryPanel", "patchLibraryPanel", "deleteLibraryPanel",
                              "connectDashboard", "disconnectDashboard",
                              "getConnectedDashboards"}
             /\ last'.uid \in deleted ) => last'.err = errLibraryPanelNotFound
        /\ StoredUIDs(panels') \cap deleted' = {}
      ]_vars

\* C10: a getLibraryPanel returned the panel of a uid on which a deleteLibraryPanel
\* had succeeded: the DELETE removed the row, the unique index no longer holds the
\* uid, and a later createLibraryPanel that GenerateShortUID gave the uid stored it
GotPanelOfDeletedUID ==
    /\ last.op = "getLibraryPanel"
    /\ last.err = Nil
    /\ last.uid \in deleted
    /\ last.panel \in panels
    /\ last.panel.UID = last.uid

(* C11.  A call that returns an error (errLibraryPanelNotFound,                      *)
(* errLibraryPanelAlreadyExists, errLibraryPanelDashboardNotFound, the error of more *)
(* than one matching row, or a fault of the storage) leaves both tables as they were *)
(* before the call: what its statements had written is rolled back.                  *)
ErrorLeavesTablesUnchanged ==
    [][ (last'.op # "ready" /\ last'.err # Nil) => UNCHANGED <<panels, conns, nextID>>
      ]_vars

\* C11: a delete whose DELETE matched the panel and whose count of affected rows
\* failed; the panel is stored still
RolledBackDelete ==
    /\ last.op = "deleteLibraryPanel"
    /\ last.flt.at = 2
    /\ last.err \in StorageFaults
    /\ PanelsOf(panels, last.uid, last.user.OrgId) # {}

(* C14.  The uid is unique across all panels ever created: a successful             *)
(* createLibraryPanel returns a uid that no stored panel has and that no deleted     *)
(* panel had.                                                                        *)
CreatedUIDsNeverRepeat ==
    [][ (last'.op = "createLibraryPanel" /\ last'.err = Nil) =>
            last'.panel.UID \notin (StoredUIDs(panels) \cup deleted)
      ]_vars

\* C14: a create returned the uid that a deleted panel had, and its row is stored
CreatedDeletedUIDAgain ==
    /\ last.op = "createLibraryPanel"
    /\ last.err = Nil
    /\ last.panel.UID \in deleted
    /\ last.panel \in panels

\* the tables with a second row for the (uid, org) of p, which the unique index on
\* the uid keeps out of every reachable state
WithSecondRow(p) == DB(panels \cup {[p EXCEPT !.ID = nextID]}, conns, nextID + 1)

(* C18.  In every reachable state at most one row of library_panel matches a         *)
(* (uid, org), so getLibraryPanel returns that one panel or errLibraryPanelNotFound  *)
(* and no call returns the error of more than one matching row; were a second row    *)
(* to match, the lookup would return that error, which is not                        *)
(* errLibraryPanelNotFound.                                                          *)
AtMostOnePanelPerKey ==
    /\ \A uid \in UIDs, user \in SignedInUsers :
           Cardinality(PanelsOf(panels, uid, user.OrgId)) <= 1
    /\ last.err # errFoundPanels
    /\ (last.op = "getLibraryPanel" /\ last.flt = NoFault) =>
           LET matching == PanelsOf(panels, last.uid, last.user.OrgId)
           IN  \/ last.err = Nil /\ matching = {last.panel}
               \/ last.err = errLibraryPanelNotFound /\ matching = {}
    /\ \A p \in panels :
           LET got == getLibraryPanel(WithSecondRow(p), p.UID, p.OrgID, NoFault, 1)
           IN  /\ Cardinality(PanelsOf(WithSecondRow(p).panels, p.UID, p.OrgID)) = 2
               /\ got.err = errFoundPanels
               /\ got.err # errLibraryPanelNotFound

\* C18: a lookup returned the one panel of its (uid, org) while two panels are stored
GotTheOnlyMatch ==
    /\ last.op = "getLibraryPanel"
    /\ last.err = Nil
    /\ Cardinality(panels) = 2
    /\ PanelsOf(panels, last.uid, last.user.OrgId) = {last.panel}

ConnectedIDs(cs) == {r.LibraryPanelID : r \in BagToSet(cs)}

(* C20.  A freshly created panel has no connected dashboards, whatever rows of       *)
(* deleted panels the connection table holds: a successful createLibraryPanel        *)
(* stores a panel whose id no connection row refers to; a connection row is added    *)
(* only by a successful connectDashboard, for the panel that its uid names; and      *)
(* getConnectedDashboards returns the dashboards of the rows that refer to the id of *)
(* the panel its uid names, so it returns none for a new panel until a               *)
(* connectDashboard on its uid has succeeded.                                        *)
NewPanelHasNoConnections ==
    [][ /\ (last'.op = "createLibraryPanel" /\ last'.err = Nil) =>
               /\ last'.panel \in panels'
               /\ last'.panel.ID \notin ConnectedIDs(conns')
        /\ \A r \in BagToSet(conns') :
               conns'[r] > (IF r \in BagToSet(conns) THEN conns[r] ELSE 0) =>
                   /\ last'.op = "connectDashboard"
                   /\ last'.err = Nil
                   /\ \E p \in PanelsOf(panels, last'.uid, last'.user.OrgId) :
                          r.LibraryPanelID = p.ID
        /\ (last'.op = "getConnectedDashboards" /\ last'.err = Nil) =>
               \E p \in PanelsOf(panels, last'.uid, last'.user.OrgId) :
                   /\ Range(last'.ids) =
                          {r.DashboardID : r \in BagToSet(ConnRowsOfPanel(conns, p.ID))}
                   /\ p.ID \notin ConnectedIDs(conns) => last'.ids = <<>>
      ]_vars

\* C20: getConnectedDashboards returned a dashboard for a panel whose row of that
\* dashboard was created by a user of another organization: connectDashboard finds
\* the panel in the organization of its user, so the row was inserted for a deleted
\* panel and the stored one got the key of that panel
ListedInheritedConnection ==
    /\ last.op = "getConnectedDashboards"
    /\ last.err = Nil
    /\ \E p \in PanelsOf(panels, last.uid, last.user.OrgId) :
           \E r \in BagToSet(conns) :
               /\ r.LibraryPanelID = p.ID
               /\ r.DashboardID \in Range(last.ids)
               /\ \A u \in SignedInUsers : u.UserId = r.CreatedBy => u.OrgId # p.OrgID

\* session s executes the write of handler op in this step
Writes(s, op) ==
    /\ sessions[s].op = op
    /\ sessions[s].pc = "write"
    /\ sessions'[s].pc = "done"

(* C12, as it is claimed.  No write of another call to the panel falls between the   *)
(* lookup of a patchLibraryPanel and its update: when a patch updates the row with   *)
(* success, the row that its lookup returned, from which it carries forward the      *)
(* fields its command leaves unset, is the row that is stored.                       *)
PatchesDoNotInterleave ==
    [][ \A s \in Sessions :
            (Writes(s, "patchLibraryPanel") /\ sessions'[s].err = Nil) =>
                sessions[s].panel \in panels
      ]_vars

\* C12: two patches of one panel have both succeeded, one set the folder and the
\* other, which set the name only, wrote back the folder that its lookup had
\* returned: the stored row has not the folder that the first patch set
LostUpdate ==
    \E s, t \in Sessions :
        /\ sessions[s].op = "patchLibraryPanel" /\ sessions[t].op = "patchLibraryPanel"
        /\ sessions[s].pc = "done" /\ sessions[t].pc = "done"
        /\ sessions[s].err = Nil /\ sessions[t].err = Nil
        /\ sessions[s].panel.ID = sessions[t].panel.ID
        /\ sessions[s].cmd.FolderID # 0 /\ sessions[t].cmd.FolderID = 0
        /\ \E p \in panels :
               /\ p.ID = sessions[s].panel.ID
               /\ p.FolderID # sessions[s].cmd.FolderID
               /\ p.Name = sessions[t].cmd.Name

(* C13.  Whatever the order of the statements of concurrent connectDashboard and     *)
(* disconnectDashboard calls, library_panel_dashboard holds at most one row for a    *)
(* (panel id, dashboard id), and a connectDashboard whose lookup found the panel     *)
(* returns nil and leaves exactly one row for its pair, also when another call has   *)
(* connected the pair since the lookup.                                              *)
ConcurrentConnectsKeepOneRow ==
    [][ /\ \A r \in BagToSet(conns') : Count(conns', r.LibraryPanelID, r.DashboardID) = 1
        /\ \A s \in Sessions :
               Writes(s, "connectDashboard") =>
                   /\ sessions'[s].err = Nil
                   /\ Count(conns', sessions[s].panel.ID, sessions[s].dash) = 1
                   /\ Count(conns, sessions[s].panel.ID, sessions[s].dash) = 1 =>
                          UNCHANGED <<panels, conns, nextID>>
      ]_vars

\* C13: two connects of one pair, running in two sessions at once, have both
\* returned nil; one row is stored
ConnectedConcurrently ==
    \E s, t \in Sessions :
        /\ s # t
        /\ sessions[s].op = "connectDashboard" /\ sessions[t].op = "connectDashboard"
        /\ sessions[s].pc = "done" /\ sessions[t].pc = "done"
        /\ sessions[s].err = Nil /\ sessions[t].err = Nil
        /\ sessions[s].panel.ID = sessions[t].panel.ID
        /\ sessions[s].dash = sessions[t].dash
        /\ Count(conns, sessions[s].panel.ID, sessions[s].dash) = 1

\* the ids of the stored panels
StoredIDs(ps) == {p.ID : p \in ps}

(* C15.  A deleteLibraryPanel and a patchLibraryPanel that run concurrently on one   *)
(* (uid, org) end as one of the two serial orders.  The update of the patch either   *)
(* finds the row its lookup returned and replaces it with the merged row, or, the    *)
(* delete having committed since the lookup, affects no row and returns              *)
(* errLibraryPanelNotFound without writing; it never stores a row of an id that is   *)
(* not stored.  The delete of a stored panel returns nil and removes the row,        *)
(* patched or not.  Once both calls have finished, the delete with nil, the patch    *)
(* has returned nil or errLibraryPanelNotFound and no panel has the (uid, org),      *)
(* unless the patch ran, with success, on a panel that a create stored under the     *)
(* uid after the delete.                                                             *)
DeleteAndPatchSerialize ==
    [][ \A s \in Sessions :
        /\ Writes(s, "patchLibraryPanel") =>
               /\ StoredIDs(panels') = StoredIDs(panels)
               /\ IF sessions[s].panel.ID \in StoredIDs(panels)
                  THEN /\ sessions'[s].err = Nil
                       /\ \E p \in panels' :
                              /\ p.ID = sessions[s].panel.ID
                              /\ p = UpdatedRow(p, sessions'[s].panel)
                  ELSE /\ sessions'[s].err = errLibraryPanelNotFound
                       /\ UNCHANGED <<panels, conns, nextID>>
        /\ ( /\ Writes(s, "deleteLibraryPanel")
             /\ PanelsOf(panels, sessions[s].uid, sessions[s].user.OrgId) # {} ) =>
               /\ sessions'[s].err = Nil
               /\ PanelsOf(panels', sessions[s].uid, sessions[s].user.OrgId) = {}
               /\ Cardinality(panels') = Cardinality(panels) - 1
        /\ \A t \in Sessions :
               ( /\ sessions'[s].op = "patchLibraryPanel" /\ sessions'[s].pc = "done"
                 /\ sessions'[t].op = "deleteLibraryPanel" /\ sessions'[t].pc = "done"
                 /\ sessions'[t].err = Nil
                 /\ sessions'[s].uid = sessions'[t].uid
                 /\ sessions'[s].user.OrgId = sessions'[t].user.OrgId ) =>
                   LET stored == PanelsOf(panels', sessions'[s].uid, sessions'[s].user.OrgId)
                   IN  /\ sessions'[s].err \in {Nil, errLibraryPanelNotFound}
                       /\ sessions'[s].err = errLibraryPanelNotFound => stored = {}
                       /\ stored # {} => StoredIDs(stored) = {sessions'[s].panel.ID}
                       /\ Writes(t, "deleteLibraryPanel") => stored = {}
      ]_vars

\* C15: a patch found its panel, a delete of the panel committed, and the update of
\* the patch then affected no row; both calls have finished and the panel is gone
PatchLostTheRace ==
    \E s, t \in Sessions :
        /\ sessions[s].op = "patchLibraryPanel" /\ sessions[s].pc = "done"
        /\ sessions[s].err = errLibraryPanelNotFound
        /\ sessions[s].panel.ID # 0
        /\ sessions[t].op = "deleteLibraryPanel" /\ sessions[t].pc = "done"
        /\ sessions[t].err = Nil
        /\ sessions[t].uid = sessions[s].uid
        /\ PanelsOf(panels, sessions[s].uid, sessions[s].user.OrgId) = {}

(* C16, as it is claimed.  connectDashboard adds a row to library_panel_dashboard    *)
(* only for a panel that exists: when the insert of a connect is committed, a row    *)
(* of library_panel with the id that the new row refers to is stored, also when a    *)
(* deleteLibraryPanel of the panel runs concurrently with the connect.               *)
ConnectionsReferToStoredPanels ==
    [][ \A s \in Sessions :
            (Writes(s, "connectDashboard") /\ sessions'[s].err = Nil /\ conns' # conns) =>
                \A r \in BagToSet(conns') :
                    conns'[r] > (IF r \in BagToSet(conns) THEN conns[r] ELSE 0) =>
                        r.LibraryPanelID \in StoredIDs(panels')
      ]_vars

(* C17, as it is claimed.  The transaction scope of a call gets the caller's         *)
(* cancellation signal: the first statement that a call is to execute after its      *)
(* caller has cancelled is not executed; the scope is aborted, the call returns an   *)
(* error, and the tables are as they were before the call.                           *)
CancelAbortsTheScope ==
    [][ \A s \in Sessions :
            ( /\ sessions[s].cancelled
              /\ sessions[s].pc \in {"find", "read", "write"}
              /\ sessions'[s].pc # sessions[s].pc ) =>
                /\ sessions'[s].pc = "done"
                /\ sessions'[s].err # Nil
                /\ UNCHANGED <<panels, conns, nextID>>
      ]_vars

\* C17: the caller of a patch cancelled before the update, and the patch has
\* returned nil with the merged row stored
CommittedAfterCancel ==
    \E s \in Sessions :
        /\ sessions[s].op = "patchLibraryPanel"
        /\ sessions[s].pc = "done"
        /\ sessions[s].cancelled
        /\ sessions[s].err = Nil
        /\ sessions[s].cmd.Name # ""
        /\ sessions[s].panel \in panels

====
